---- MODULE Spec2Model ----
(***************************************************************************)
(* Event join-request workflow of backend/src/routes/events.js:            *)
(* POST /:id/join, /:id/approve-request/:requestId,                        *)
(* /:id/reject-request/:requestId and /:id/leave on one Event document.    *)
(*                                                                         *)
(* Every handler reads the document (Event.findById), runs its checks and  *)
(* mutates its in-memory copy without yielding, then awaits event.save().  *)
(* Handlers of different requests interleave at that await, so a handler   *)
(* is two steps here: the read-check-mutate step and the save step, which  *)
(* writes the handler's in-memory document back.                           *)
(***************************************************************************)
EXTENDS Integers, Sequences, FiniteSets, TLC

(* ---------------------------------------------------------------------- *)
(* Bounds of the model                                                     *)
(* ---------------------------------------------------------------------- *)
\* largest capacity.max of an event
MaxCap == 2
\* longest waitlist an event starts with
MaxWait == 1
\* join requests created on the event over its life
MaxRequests == 2
\* capacity.max fallback of the join handler
DefaultMaxCapacity == 1000

\* event.organizer, who decides join requests
Organizer == "o"
\* the users who ask to join or leave
Users == {"a", "b"}
\* req.user.id of an approve or reject call
Callers == Users \cup {Organizer}
\* handlers that can be between their read and their save at the same time
Procs == {1, 2}
\* req.body.transactionCode: absent (falsy) or a code
NoCode == ""
TransactionCodes == {NoCode, "TX1"}
\* req.params.requestId
RequestIds == 1..MaxRequests

VARIABLES
    db,         \* the persisted Event document
    base,       \* the persisted document when the running handlers began
    pc,         \* pc[p]: "idle", "saving" (before await event.save()), "done"
    req,        \* req[p]: the request handler p serves
    local,      \* local[p]: handler p's in-memory event while it is saving
    result,     \* result[p]: handler p's answer, sent once pc[p] = "done"
    body,       \* body[p]: what that answer carries beside its result
    emitted,    \* emitted[p]: the notifications handler p gave to io.emit
    nextId      \* next _id given to a pushed joinRequests subdocument

vars == <<db, base, pc, req, local, result, body, emitted, nextId>>

(* ---------------------------------------------------------------------- *)
(* Sequence helpers (Array.prototype.some / indexOf / splice / shift)      *)
(* ---------------------------------------------------------------------- *)
Range(s) == {s[i] : i \in 1..Len(s)}

NoDuplicates(s) == \A i, j \in 1..Len(s) : i # j => s[i] # s[j]

\* mutant: a missing entry is reported as the last index, which is what
\* splice(-1, 1) would act on
IndexOfOrLast(s, x) ==
    IF x \in Range(s) THEN CHOOSE i \in 1..Len(s) :
                               s[i] = x /\ \A j \in 1..(i - 1) : s[j] # x
    ELSE Len(s)

\* participants.indexOf(userId): first index, 0 for -1
IndexOf(s, x) ==
    IF x \in Range(s) THEN CHOOSE i \in 1..Len(s) :
                               s[i] = x /\ \A j \in 1..(i - 1) : s[j] # x
    ELSE 0

\* mutant: the splice removes the first entry whatever the index
SpliceFirst(s, i) == SubSeq(s, 2, Len(s))

\* participants.splice(index, 1)
Splice(s, i) == SubSeq(s, 1, i - 1) \o SubSeq(s, i + 1, Len(s))

\* sequences over S without duplicates, of length at most n
RECURSIVE SeqsUpTo(_, _)
SeqsUpTo(S, n) ==
    IF n = 0 THEN {<<>>}
    ELSE LET shorter == SeqsUpTo(S, n - 1)
         IN  shorter \cup {Append(s, x) : s \in shorter, x \in S}

DistinctSeqs(S, n) == {s \in SeqsUpTo(S, n) : NoDuplicates(s)}

(* ---------------------------------------------------------------------- *)
(* Handlers as functions of the document read                              *)
(* ---------------------------------------------------------------------- *)
Outcome(res, ev, saves) == [result |-> res, event |-> ev, save |-> saves]

\* event.joinRequests.id(requestId): index of the subdocument, 0 when none
RequestIndex(event, requestId) ==
    IF \E i \in 1..Len(event.joinRequests) : event.joinRequests[i].id = requestId
    THEN CHOOSE i \in 1..Len(event.joinRequests) : event.joinRequests[i].id = requestId
    ELSE 0

\* mutant: the participant check never finds the caller
isAlreadyParticipantNever(event, userId) == FALSE

isAlreadyParticipant(event, userId) == userId \in Range(event.participants)

\* mutant: capacity.max is ignored, the fallback is always taken
maxCapacityIgnored(event) == DefaultMaxCapacity

maxCapacity(event) ==
    IF event.capacity.max = 0 THEN DefaultMaxCapacity ELSE event.capacity.max

isPaid(event) == event.pricing.type = "paid"

\* mutant: > where the handler has >=
isFullOffByOne(event) == Len(event.participants) > maxCapacity(event)

\* "Check capacity" of the join handler
isFull(event) == Len(event.participants) >= maxCapacity(event)

\* mutant: the pending-request check is skipped
hasPendingRequestSkipped(event, userId) == FALSE

\* mutant: a request of any status blocks a new one
hasAnyRequest(event, userId) ==
    \E i \in 1..Len(event.joinRequests) : event.joinRequests[i].user = userId

hasPendingRequest(event, userId) ==
    \E i \in 1..Len(event.joinRequests) :
        /\ event.joinRequests[i].user = userId
        /\ event.joinRequests[i].status = "pending"

\* mutant: the request stores the transaction code as sent, without "FREE"
createJoinRequestRawCode(event, userId, transactionCode, newId) ==
    [event EXCEPT !.joinRequests =
        Append(@, [id |-> newId, user |-> userId,
                   transactionCode |-> transactionCode,
                   status |-> "pending"])]

\* "CREATE JOIN REQUEST": joinRequests.push({...})
createJoinRequest(event, userId, transactionCode, newId) ==
    [event EXCEPT !.joinRequests = Append(@,
        [id |-> newId,
         user |-> userId,
         transactionCode |-> IF transactionCode = NoCode
                             THEN "FREE" ELSE transactionCode,
         status |-> "pending"])]

\* mutant: the push is lost, only the ledger is recomputed
joinImmediatelyNoPush(event, userId) ==
    [event EXCEPT !.capacity.current = Len(event.participants)]

\* mutant: the ledger is not recomputed after the push
joinImmediatelyNoCount(event, userId) ==
    [event EXCEPT !.participants = Append(@, userId)]

\* "JOIN IMMEDIATELY": participants.push, capacity.current = participants.length
joinImmediately(event, userId) ==
    LET pushed == Append(event.participants, userId)
    IN  [event EXCEPT !.participants = pushed,
                      !.capacity.current = Len(pushed)]

\* mutant: > where the handler has >=
atCapacityOffByOne(event) == event.capacity.current > event.capacity.max

\* "Check capacity" of the approve handler
atCapacity(event) == event.capacity.current >= event.capacity.max

\* mutant: the payment check is made before the capacity check
AttemptJoinPaymentFirst(event, userId, transactionCode, newId) ==
    IF isAlreadyParticipant(event, userId)
    THEN Outcome("AlreadyJoined", event, FALSE)
    ELSE IF isPaid(event) /\ transactionCode = NoCode
    THEN Outcome("PaymentRequired", event, FALSE)
    ELSE IF isFull(event)
    THEN Outcome("CapacityExceeded", event, FALSE)
    ELSE IF event.requiresApproval /\ hasPendingRequest(event, userId)
    THEN Outcome("DuplicateRequest", event, FALSE)
    ELSE IF event.requiresApproval
    THEN Outcome("PendingApproval",
                 createJoinRequest(event, userId, transactionCode, newId), TRUE)
    ELSE Outcome("Joined", joinImmediately(event, userId), TRUE)

\* router.post("/:id/join")
AttemptJoin(event, userId, transactionCode, newId) ==
    IF isAlreadyParticipant(event, userId)
    THEN Outcome("AlreadyJoined", event, FALSE)
    ELSE IF isFull(event)
    THEN Outcome("CapacityExceeded", event, FALSE)
    ELSE IF isPaid(event) /\ transactionCode = NoCode
    THEN Outcome("PaymentRequired", event, FALSE)
    ELSE IF event.requiresApproval /\ hasPendingRequest(event, userId)
    THEN Outcome("DuplicateRequest", event, FALSE)
    ELSE IF event.requiresApproval
    THEN Outcome("PendingApproval",
                 createJoinRequest(event, userId, transactionCode, newId), TRUE)
    ELSE Outcome("Joined", joinImmediately(event, userId), TRUE)

\* mutant: the approve handler looks at the capacity before the status
ApproveRequestCapacityFirst(event, approverId, requestId) ==
    LET i == RequestIndex(event, requestId)
    IN  IF event.organizer # approverId
        THEN Outcome("Forbidden", event, FALSE)
        ELSE IF i = 0
        THEN Outcome("NotFound", event, FALSE)
        ELSE IF atCapacity(event)
        THEN Outcome("CapacityExceeded", event, FALSE)
        ELSE IF event.joinRequests[i].status # "pending"
        THEN Outcome("AlreadyProcessed", event, FALSE)
        ELSE Outcome("Approved",
                     [event EXCEPT
                         !.joinRequests[i].status = "approved",
                         !.participants = Append(@, event.joinRequests[i].user),
                         !.capacity.current = @ + 1],
                     TRUE)

\* router.post("/:id/approve-request/:requestId")
ApproveRequest(event, approverId, requestId) ==
    LET i == RequestIndex(event, requestId)
    IN  IF event.organizer # approverId
        THEN Outcome("Forbidden", event, FALSE)
        ELSE IF i = 0
        THEN Outcome("NotFound", event, FALSE)
        ELSE IF event.joinRequests[i].status # "pending"
        THEN Outcome("AlreadyProcessed", event, FALSE)
        ELSE IF atCapacity(event)
        THEN Outcome("CapacityExceeded", event, FALSE)
        ELSE Outcome("Approved",
                     [event EXCEPT
                         !.joinRequests[i].status = "approved",
                         !.participants = Append(@, event.joinRequests[i].user),
                         !.capacity.current = @ + 1],
                     TRUE)

\* mutant: the reject handler refuses on a full event, as approve does
RejectRequestChecksCapacity(event, approverId, requestId) ==
    LET i == RequestIndex(event, requestId)
    IN  IF event.organizer # approverId
        THEN Outcome("Forbidden", event, FALSE)
        ELSE IF i = 0
        THEN Outcome("NotFound", event, FALSE)
        ELSE IF event.joinRequests[i].status # "pending"
        THEN Outcome("AlreadyProcessed", event, FALSE)
        ELSE IF atCapacity(event)
        THEN Outcome("CapacityExceeded", event, FALSE)
        ELSE Outcome("Rejected",
                     [event EXCEPT !.joinRequests[i].status = "rejected"],
                     TRUE)

\* mutant: the reject handler decides for any caller
RejectRequestAnyCaller(event, approverId, requestId) ==
    LET i == RequestIndex(event, requestId)
    IN  IF i = 0
        THEN Outcome("NotFound", event, FALSE)
        ELSE IF event.joinRequests[i].status # "pending"
        THEN Outcome("AlreadyProcessed", event, FALSE)
        ELSE Outcome("Rejected",
                     [event EXCEPT !.joinRequests[i].status = "rejected"],
                     TRUE)

\* router.post("/:id/reject-request/:requestId")
RejectRequest(event, approverId, requestId) ==
    LET i == RequestIndex(event, requestId)
    IN  IF event.organizer # approverId
        THEN Outcome("Forbidden", event, FALSE)
        ELSE IF i = 0
        THEN Outcome("NotFound", event, FALSE)
        ELSE IF event.joinRequests[i].status # "pending"
        THEN Outcome("AlreadyProcessed", event, FALSE)
        ELSE Outcome("Rejected",
                     [event EXCEPT !.joinRequests[i].status = "rejected"],
                     TRUE)

\* mutant: the promotion does not add the promoted user back to the ledger
LeaveForgetsPromoted(event, userId) ==
    LET index == IndexOf(event.participants, userId)
    IN  IF index = 0
        THEN Outcome("NotAParticipant", event, FALSE)
        ELSE LET spliced == Splice(event.participants, index)
             IN  IF Len(event.waitlist) > 0
                 THEN Outcome("Left",
                         [event EXCEPT
                             !.participants = Append(spliced, Head(event.waitlist)),
                             !.waitlist = Tail(@),
                             !.capacity.current = @ - 1],
                         TRUE)
                 ELSE Outcome("Left",
                         [event EXCEPT !.participants = spliced,
                                       !.capacity.current = @ - 1],
                         TRUE)

\* mutant: the promotion takes the newest waitlist entry (pop for shift)
LeavePromotesLast(event, userId) ==
    LET index == IndexOf(event.participants, userId)
    IN  IF index = 0
        THEN Outcome("NotAParticipant", event, FALSE)
        ELSE LET spliced == Splice(event.participants, index)
             IN  IF Len(event.waitlist) > 0
                 THEN Outcome("Left",
                         [event EXCEPT
                             !.participants =
                                 Append(spliced, event.waitlist[Len(event.waitlist)]),
                             !.waitlist = SubSeq(@, 1, Len(@) - 1),
                             !.capacity.current = (@ - 1) + 1],
                         TRUE)
                 ELSE Outcome("Left",
                         [event EXCEPT !.participants = spliced,
                                       !.capacity.current = @ - 1],
                         TRUE)

\* router.post("/:id/leave")
Leave(event, userId) ==
    LET index == IndexOf(event.participants, userId)
    IN  IF index = 0
        THEN Outcome("NotAParticipant", event, FALSE)
        ELSE LET spliced == Splice(event.participants, index)
             IN  IF Len(event.waitlist) > 0
                 THEN Outcome("Left",
                         [event EXCEPT
                             !.participants = Append(spliced, Head(event.waitlist)),
                             !.waitlist = Tail(@),
                             !.capacity.current = (@ - 1) + 1],
                         TRUE)
                 ELSE Outcome("Left",
                         [event EXCEPT !.participants = spliced,
                                       !.capacity.current = @ - 1],
                         TRUE)

\* a response that carries nothing beyond its result
NoBody == [amount |-> 0, currency |-> ""]

\* mutant: the payment error carries no pricing
ResponseBodyBare(event, res) == NoBody

\* res.status(400).json({error, amount, currency}) of the payment check:
\* what a response carries beside its result
ResponseBody(event, res) ==
    IF res = "PaymentRequired"
    THEN [amount |-> event.pricing.amount, currency |-> event.pricing.currency]
    ELSE NoBody

\* a handler that has no notification to emit (the leave handler)
NoNotification == "none"

\* the event name each success branch passes to io.emit
NotificationOf(res) ==
    CASE res = "Joined"          -> "participant_joined"
      [] res = "PendingApproval" -> "join_request_created"
      [] res = "Approved"        -> "join_request_approved"
      [] res = "Rejected"        -> "join_request_rejected"
      [] OTHER                   -> NoNotification

\* mutant: nothing is handed to io.emit
ioEmitNothing(sent, kind) == sent

\* if (io) io.emit(kind, {...}), with io configured
ioEmit(sent, kind) == IF kind = NoNotification THEN sent ELSE Append(sent, kind)

\* the handler a request is routed to
Handle(event, r) ==
    CASE r.op = "join"    -> AttemptJoin(event, r.user, r.code, r.id)
      [] r.op = "approve" -> ApproveRequest(event, r.user, r.id)
      [] r.op = "reject"  -> RejectRequest(event, r.user, r.id)
      [] r.op = "leave"   -> Leave(event, r.user)

(* ---------------------------------------------------------------------- *)
(* State machine                                                           *)
(* ---------------------------------------------------------------------- *)
NoRequest == [op |-> "none", user |-> Organizer, code |-> NoCode, id |-> 0]
NoResult == "none"
\* a handler that holds no document
NoEvent ==
    [organizer        |-> Organizer,
     participants     |-> <<>>,
     waitlist         |-> <<>>,
     joinRequests     |-> <<>>,
     capacity         |-> [current |-> 0, max |-> 0],
     requiresApproval |-> FALSE,
     pricing          |-> [type |-> "free", amount |-> 0, currency |-> "USD"]]

\* event.pricing of a free and of a paid event
Pricings ==
    { [type |-> "free", amount |-> 0, currency |-> "USD"],
      [type |-> "paid", amount |-> 500, currency |-> "KES"] }

\* Events the four handlers can be called on: the ledger agrees with the
\* participant list, participants and waitlist are duplicate-free and
\* disjoint, no join request exists yet. capacity.max and the waitlist are
\* whatever the organizer's create/update body (Object.assign) left there,
\* so a waitlist may stand next to free slots.
InitialEvents ==
    { [organizer        |-> Organizer,
       participants     |-> ps,
       waitlist         |-> wl,
       joinRequests     |-> <<>>,
       capacity         |-> [current |-> Len(ps), max |-> mx],
       requiresApproval |-> ra,
       pricing          |-> pr] :
        mx \in 1..MaxCap,
        ps \in DistinctSeqs(Users, MaxCap),
        wl \in DistinctSeqs(Users, MaxWait),
        ra \in BOOLEAN,
        pr \in Pricings }

Init ==
    /\ db \in {e \in InitialEvents :
                   /\ Len(e.participants) <= e.capacity.max
                   /\ Range(e.waitlist) \cap Range(e.participants) = {}}
    /\ base = db
    /\ pc = [p \in Procs |-> "idle"]
    /\ req = [p \in Procs |-> NoRequest]
    /\ local = [p \in Procs |-> NoEvent]
    /\ result = [p \in Procs |-> NoResult]
    /\ body = [p \in Procs |-> NoBody]
    /\ emitted = [p \in Procs |-> <<>>]
    /\ nextId = 1

\* Event.findById, the checks and the in-memory mutation of one handler, up
\* to await event.save(): a failed check answers at once, otherwise the
\* handler holds the mutated document and waits to save it.
\* Slots fill in order (they are interchangeable), and a request that
\* arrives after every earlier handler has answered overlaps none of them:
\* it starts once the slots are settled.
Begin(p, r) ==
    /\ \A q \in Procs : q < p => pc[q] # "idle"
    /\ \/ \A q \in Procs : pc[q] = "idle"
       \/ \E q \in Procs : pc[q] = "saving"
    /\ LET out == Handle(db, r)
       IN  /\ req' = [req EXCEPT ![p] = r]
           /\ result' = [result EXCEPT ![p] = out.result]
           /\ body' = [body EXCEPT ![p] = ResponseBody(db, out.result)]
           /\ pc' = [pc EXCEPT ![p] = IF out.save THEN "saving" ELSE "done"]
           /\ local' = [local EXCEPT ![p] = IF out.save THEN out.event ELSE NoEvent]
           /\ nextId' = IF out.result = "PendingApproval" THEN nextId + 1 ELSE nextId
    /\ UNCHANGED <<db, base, emitted>>

JoinRead(p) ==
    /\ pc[p] = "idle"
    /\ nextId <= MaxRequests
    /\ \E u \in Users, c \in TransactionCodes :
        Begin(p, [op |-> "join", user |-> u, code |-> c, id |-> nextId])

ApproveRead(p) ==
    /\ pc[p] = "idle"
    /\ \E u \in Callers, rid \in RequestIds :
        Begin(p, [op |-> "approve", user |-> u, code |-> NoCode, id |-> rid])

RejectRead(p) ==
    /\ pc[p] = "idle"
    /\ \E u \in Callers, rid \in RequestIds :
        Begin(p, [op |-> "reject", user |-> u, code |-> NoCode, id |-> rid])

LeaveRead(p) ==
    /\ pc[p] = "idle"
    /\ \E u \in Users :
        Begin(p, [op |-> "leave", user |-> u, code |-> NoCode, id |-> 0])

\* await event.save(): the handler's in-memory document is written back
\* whole, then the notification is emitted and the success answer is sent
Save(p) ==
    /\ pc[p] = "saving"
    /\ db' = local[p]
    /\ pc' = [pc EXCEPT ![p] = "done"]
    /\ local' = [local EXCEPT ![p] = NoEvent]
    /\ emitted' = [emitted EXCEPT ![p] = ioEmit(@, NotificationOf(result[p]))]
    /\ UNCHANGED <<base, req, result, body, nextId>>

Quiet == \A p \in Procs : pc[p] \in {"idle", "done"}

\* every running handler has answered: the worker slots are free again
Settle ==
    /\ Quiet
    /\ \E p \in Procs : pc[p] = "done"
    /\ pc' = [p \in Procs |-> "idle"]
    /\ req' = [p \in Procs |-> NoRequest]
    /\ local' = [p \in Procs |-> NoEvent]
    /\ result' = [p \in Procs |-> NoResult]
    /\ body' = [p \in Procs |-> NoBody]
    /\ emitted' = [p \in Procs |-> <<>>]
    /\ base' = db
    /\ UNCHANGED <<db, nextId>>

Next ==
    \/ \E p \in Procs : JoinRead(p)
    \/ \E p \in Procs : ApproveRead(p)
    \/ \E p \in Procs : RejectRead(p)
    \/ \E p \in Procs : LeaveRead(p)
    \/ \E p \in Procs : Save(p)
    \/ Settle

Spec == Init /\ [][Next]_vars

(* ---------------------------------------------------------------------- *)
(* The leave handler on events with a longer waitlist                      *)
(* ---------------------------------------------------------------------- *)
\* users of an event whose waitlist holds more than one of them
QueueUsers == {"a", "b", "c", "d"}

\* Events with up to MaxWait + 1 waitlisted users. On an event that requires
\* approval the head of the waitlist may have asked to join.
QueueEvents ==
    { [organizer        |-> Organizer,
       participants     |-> ps,
       waitlist         |-> wl,
       joinRequests     |-> jr,
       capacity         |-> [current |-> Len(ps), max |-> mx],
       requiresApproval |-> ra,
       pricing          |-> [type |-> "free", amount |-> 0, currency |-> "USD"]] :
        mx \in 1..MaxCap,
        ps \in DistinctSeqs(QueueUsers, MaxCap),
        wl \in DistinctSeqs(QueueUsers, MaxWait + 1),
        ra \in BOOLEAN,
        jr \in {<<>>} \cup
               {<<[id |-> 1, user |-> u, transactionCode |-> "FREE",
                   status |-> "pending"]>> : u \in QueueUsers} }

QueueInit ==
    /\ db \in {e \in QueueEvents :
                   /\ Len(e.participants) <= e.capacity.max
                   /\ Range(e.waitlist) \cap Range(e.participants) = {}
                   /\ e.joinRequests # <<>> =>
                        /\ e.requiresApproval
                        /\ e.waitlist # <<>>
                        /\ e.joinRequests[1].user = Head(e.waitlist)}
    /\ base = db
    /\ pc = [p \in Procs |-> "idle"]
    /\ req = [p \in Procs |-> NoRequest]
    /\ local = [p \in Procs |-> NoEvent]
    /\ result = [p \in Procs |-> NoResult]
    /\ body = [p \in Procs |-> NoBody]
    /\ emitted = [p \in Procs |-> <<>>]
    /\ nextId = Len(db.joinRequests) + 1

\* router.post("/:id/leave") called by any of these users
QueueLeaveRead(p) ==
    /\ pc[p] = "idle"
    /\ \E u \in QueueUsers :
        Begin(p, [op |-> "leave", user |-> u, code |-> NoCode, id |-> 0])

QueueNext ==
    \/ \E p \in Procs : QueueLeaveRead(p)
    \/ \E p \in Procs : Save(p)
    \/ Settle

SpecQueue == QueueInit /\ [][QueueNext]_vars

(* ---------------------------------------------------------------------- *)
(* The handlers with failing collaborators                                 *)
(* ---------------------------------------------------------------------- *)
\* the catch block's answer: status 500
Failed == "Failed"

\* the answers that report a failure to the caller
Failures ==
    {"AlreadyJoined", "CapacityExceeded", "PaymentRequired", "DuplicateRequest",
     "Forbidden", "NotFound", "AlreadyProcessed", "NotAParticipant", Failed}

\* await event.save() resolves: the document is written back whole
SaveOk(p) ==
    /\ pc[p] = "saving"
    /\ db' = local[p]
    /\ pc' = [pc EXCEPT ![p] = "populating"]
    /\ local' = [local EXCEPT ![p] = NoEvent]
    /\ UNCHANGED <<base, req, result, body, emitted, nextId>>

\* await event.save() rejects: nothing is written, the catch block answers
SaveFails(p) ==
    /\ pc[p] = "saving"
    /\ pc' = [pc EXCEPT ![p] = "done"]
    /\ result' = [result EXCEPT ![p] = Failed]
    /\ local' = [local EXCEPT ![p] = NoEvent]
    /\ UNCHANGED <<db, base, req, body, emitted, nextId>>

\* await event.populate(...) resolves; the leave handler answers right
\* after it, the others go on to io.emit
Populate(p) ==
    /\ pc[p] = "populating"
    /\ pc' = [pc EXCEPT ![p] = IF req[p].op = "leave" THEN "done" ELSE "emitting"]
    /\ UNCHANGED <<db, base, req, local, result, body, emitted, nextId>>

\* await event.populate(...) rejects after the save: the catch block answers
PopulateFails(p) ==
    /\ pc[p] = "populating"
    /\ pc' = [pc EXCEPT ![p] = "done"]
    /\ result' = [result EXCEPT ![p] = Failed]
    /\ UNCHANGED <<db, base, req, local, body, emitted, nextId>>

\* io.emit(...) returns, then res.json sends the success answer
Emit(p) ==
    /\ pc[p] = "emitting"
    /\ emitted' = [emitted EXCEPT ![p] = ioEmit(@, NotificationOf(result[p]))]
    /\ pc' = [pc EXCEPT ![p] = "done"]
    /\ UNCHANGED <<db, base, req, local, result, body, nextId>>

\* io.emit(...) throws inside the try block: the catch block answers
EmitFails(p) ==
    /\ pc[p] = "emitting"
    /\ pc' = [pc EXCEPT ![p] = "done"]
    /\ result' = [result EXCEPT ![p] = Failed]
    /\ UNCHANGED <<db, base, req, local, body, emitted, nextId>>

\* Failures of the collaborators are followed one request at a time: a
\* single worker slot serves the event
FaultProcs == {1}

FaultNext ==
    \/ \E p \in FaultProcs : JoinRead(p)
    \/ \E p \in FaultProcs : ApproveRead(p)
    \/ \E p \in FaultProcs : RejectRead(p)
    \/ \E p \in FaultProcs : LeaveRead(p)
    \/ \E p \in FaultProcs : SaveOk(p)
    \/ \E p \in FaultProcs : SaveFails(p)
    \/ \E p \in FaultProcs : Populate(p)
    \/ \E p \in FaultProcs : PopulateFails(p)
    \/ \E p \in FaultProcs : Emit(p)
    \/ \E p \in FaultProcs : EmitFails(p)
    \/ Settle

SpecFault == Init /\ [][FaultNext]_vars

(* ---------------------------------------------------------------------- *)
(* The join handler from Event.findById on                                 *)
(* ---------------------------------------------------------------------- *)
\* what Event.findById resolves to when no event has the id (deleted event)
Null == [missing |-> TRUE]

\* const event = await Event.findById(eventId); if (!event) return 404;
\* then the checks of the join handler
JoinHandler(stored, userId, transactionCode, newId) ==
    IF stored = Null
    THEN Outcome("NotFound", stored, FALSE)
    ELSE AttemptJoin(stored, userId, transactionCode, newId)

\* transaction codes a join may carry here: none, or one of two
LookupCodes == TransactionCodes \cup {"TX2"}

LookupProcs == {1}

\* Events on which several checks of the join handler can fail at once: any
\* participants within the capacity, approval on or off, free or paid, and
\* possibly one earlier join request of any status (the organizer's update
\* may switch requiresApproval and pricing at any time)
LookupEvents ==
    { [organizer        |-> Organizer,
       participants     |-> ps,
       waitlist         |-> <<>>,
       joinRequests     |-> jr,
       capacity         |-> [current |-> Len(ps), max |-> mx],
       requiresApproval |-> ra,
       pricing          |-> pr] :
        mx \in 1..MaxCap,
        ps \in DistinctSeqs(Users, MaxCap),
        ra \in BOOLEAN,
        pr \in Pricings,
        jr \in {<<>>} \cup
               {<<[id |-> 1, user |-> u, transactionCode |-> "TX1",
                   status |-> s]>> :
                   u \in Users, s \in {"pending", "approved", "rejected"}} }

LookupInit ==
    /\ db \in {e \in LookupEvents : Len(e.participants) <= e.capacity.max}
                 \cup {Null}
    /\ base = db
    /\ pc = [p \in Procs |-> "idle"]
    /\ req = [p \in Procs |-> NoRequest]
    /\ local = [p \in Procs |-> NoEvent]
    /\ result = [p \in Procs |-> NoResult]
    /\ body = [p \in Procs |-> NoBody]
    /\ emitted = [p \in Procs |-> <<>>]
    /\ nextId = IF db = Null THEN 1 ELSE Len(db.joinRequests) + 1

\* router.post("/:id/join") up to await event.save()
LookupJoin(p) ==
    /\ pc[p] = "idle"
    /\ \E u \in Users, c \in LookupCodes :
         LET r == [op |-> "join", user |-> u, code |-> c, id |-> nextId]
             out == JoinHandler(db, u, c, nextId)
         IN  /\ req' = [req EXCEPT ![p] = r]
             /\ result' = [result EXCEPT ![p] = out.result]
             /\ body' = [body EXCEPT ![p] =
                            IF db = Null THEN NoBody
                            ELSE ResponseBody(db, out.result)]
             /\ pc' = [pc EXCEPT ![p] = IF out.save THEN "saving" ELSE "done"]
             /\ local' = [local EXCEPT ![p] = IF out.save THEN out.event ELSE NoEvent]
             /\ nextId' = IF out.result = "PendingApproval" THEN nextId + 1 ELSE nextId
    /\ UNCHANGED <<db, base, emitted>>

LookupNext ==
    \/ \E p \in LookupProcs : LookupJoin(p)
    \/ \E p \in LookupProcs : Save(p)
    \/ Settle

SpecLookup == LookupInit /\ [][LookupNext]_vars

(* ---------------------------------------------------------------------- *)
(* Properties                                                              *)
(* ---------------------------------------------------------------------- *)
\* handler p reads the event in this step, serving a request of kind op
Begins(p, op) == pc[p] = "idle" /\ pc'[p] # "idle" /\ req'[p].op = op

\* handler p answers a failure in this step and leaves nothing to save
FailsWith(p, res) == pc'[p] = "done" /\ result'[p] = res /\ db' = db

Answered(p, op, res) == pc[p] = "done" /\ req[p].op = op /\ result[p] = res

PaymentOk(event, code) == isPaid(event) => code # NoCode

\* user u has a join request of the given status in event
RequestOf(event, u, status) ==
    \E i \in 1..Len(event.joinRequests) :
        /\ event.joinRequests[i].user = u
        /\ event.joinRequests[i].status = status

\* C1: the persisted event always has 0 <= capacity.current <= capacity.max
C1_CapacityBound ==
    0 <= db.capacity.current /\ db.capacity.current <= db.capacity.max

\* a committed join or approval that filled the last slot
C1_Witness ==
    \E p \in Procs :
        /\ pc[p] = "done"
        /\ result[p] \in {"Joined", "Approved"}
        /\ db.capacity.current = db.capacity.max
        /\ Len(db.participants) = db.capacity.max

\* C2: no user appears more than once in the persisted participants list
C2_ParticipantsUnique == NoDuplicates(db.participants)

\* C3 as stated: on a full event attemptJoin by every user fails with
\* CapacityExceeded and changes nothing
C3_FullAlwaysCapacityExceeded ==
    [][\A p \in Procs :
          (Begins(p, "join") /\ Len(db.participants) = db.capacity.max)
              => FailsWith(p, "CapacityExceeded")]_vars

\* C3 amended: on a full event attemptJoin changes nothing and fails, with
\* CapacityExceeded for a user who is not a participant and with
\* AlreadyJoined for one who is, whatever requiresApproval and the code
C3_FullFailsByPrecedence ==
    [][\A p \in Procs :
          (Begins(p, "join") /\ Len(db.participants) = db.capacity.max)
              => IF req'[p].user \in Range(db.participants)
                 THEN FailsWith(p, "AlreadyJoined")
                 ELSE FailsWith(p, "CapacityExceeded")]_vars

\* a non-participant with a transaction code was turned away from a full
\* event that requires approval
C3_Witness ==
    \E p \in Procs :
        /\ Answered(p, "join", "CapacityExceeded")
        /\ req[p].code # NoCode
        /\ req[p].user \notin Range(db.participants)
        /\ db.requiresApproval
        /\ Len(db.participants) = db.capacity.max

\* C4: the organizer's approveRequest on a pending request goes through
\* when participants.length < capacity.max and otherwise fails with
\* CapacityExceeded, leaving the request pending and the event unchanged
C4_ApprovalRespectsCapacity ==
    [][\A p \in Procs :
          LET i == RequestIndex(db, req'[p].id)
          IN  (/\ Begins(p, "approve")
               /\ req'[p].user = db.organizer
               /\ i # 0
               /\ db.joinRequests[i].status = "pending")
                  => IF Len(db.participants) < db.capacity.max
                     THEN /\ pc'[p] = "saving"
                          /\ result'[p] = "Approved"
                          /\ Len(local'[p].participants) <= db.capacity.max
                     ELSE /\ FailsWith(p, "CapacityExceeded")
                          /\ db'.joinRequests[i].status = "pending"]_vars

\* the organizer was refused the approval of a pending request on a full event
C4_Witness ==
    \E p \in Procs :
        /\ Answered(p, "approve", "CapacityExceeded")
        /\ LET i == RequestIndex(db, req[p].id)
           IN  i # 0 /\ db.joinRequests[i].status = "pending"
        /\ Len(db.participants) = db.capacity.max

\* C5: each user has at most one pending entry in the persisted joinRequests
C5_OnePendingPerUser ==
    \A u \in Users :
        Cardinality({i \in 1..Len(db.joinRequests) :
                        /\ db.joinRequests[i].user = u
                        /\ db.joinRequests[i].status = "pending"}) <= 1

\* a user with a pending request asked again and was answered DuplicateRequest
C5_Witness ==
    \E p \in Procs :
        /\ Answered(p, "join", "DuplicateRequest")
        /\ RequestOf(db, req[p].user, "pending")

\* C6: a persisted join request that is approved or rejected keeps that
\* status in the next persisted state
C6_StatusMonotonic ==
    [][\A i \in 1..Len(db.joinRequests) :
          db.joinRequests[i].status \in {"approved", "rejected"}
              => \A j \in 1..Len(db'.joinRequests) :
                     db'.joinRequests[j].id = db.joinRequests[i].id
                         => db'.joinRequests[j].status = db.joinRequests[i].status]_vars

\* C7 as stated: once a user's request was rejected, no attemptJoin of that
\* user creates a new join request
C7_RejectedIsTerminal ==
    [][\A p \in Procs :
          (Begins(p, "join") /\ RequestOf(db, req'[p].user, "rejected"))
              => result'[p] # "PendingApproval"]_vars

\* C7 amended: a rejected user who asks again, and passes the other checks
\* of attemptJoin, gets a new pending request next to the rejected one
C7_RejectedMayRequestAgain ==
    [][\A p \in Procs :
          (/\ Begins(p, "join")
           /\ db.requiresApproval
           /\ RequestOf(db, req'[p].user, "rejected")
           /\ ~RequestOf(db, req'[p].user, "pending")
           /\ req'[p].user \notin Range(db.participants)
           /\ Len(db.participants) < db.capacity.max
           /\ PaymentOk(db, req'[p].code))
              => /\ pc'[p] = "saving"
                 /\ result'[p] = "PendingApproval"
                 /\ Len(local'[p].joinRequests) = Len(db.joinRequests) + 1
                 /\ SubSeq(local'[p].joinRequests, 1, Len(db.joinRequests))
                        = db.joinRequests
                 /\ LET new == local'[p].joinRequests[Len(db.joinRequests) + 1]
                    IN  new.user = req'[p].user /\ new.status = "pending"]_vars

\* a user whose first request was rejected is a participant through a
\* second, approved request
C7_Witness ==
    \E i, j \in 1..Len(db.joinRequests) :
        /\ i < j
        /\ db.joinRequests[i].user = db.joinRequests[j].user
        /\ db.joinRequests[i].status = "rejected"
        /\ db.joinRequests[j].status = "approved"
        /\ db.joinRequests[j].user \in Range(db.participants)

\* the handlers that have answered since the slots were last settled
DoneProcs == {p \in Procs : pc[p] = "done"}

\* the orders in which the handlers of D can run one after the other
Orders(D) == {s \in DistinctSeqs(D, Cardinality(D)) : Len(s) = Cardinality(D)}

\* running the requests of the handlers in order, one at a time, from event
\* gives every handler the answer it sent and ends in the persisted event
RECURSIVE SerialRun(_, _)
SerialRun(event, order) ==
    IF order = <<>>
    THEN event = db
    ELSE LET out == Handle(event, req[Head(order)])
         IN  /\ out.result = result[Head(order)]
             /\ SerialRun(out.event, Tail(order))

\* C8: once the overlapping handlers have all answered, their answers and
\* the persisted event are those of running them one at a time in some order
C8_Serializable ==
    (Quiet /\ DoneProcs # {}) => \E s \in Orders(DoneProcs) : SerialRun(base, s)

\* C9: a second attemptJoin that reads a requiresApproval=false event with
\* one free slot while another user's attemptJoin has read it and not yet
\* saved passes the capacity check too: both hold a full participant list
\* that contains themselves, and both answer Joined once they save
C9_LastSlotRace ==
    [][\A p, q \in Procs :
          /\ (/\ p # q
              /\ pc[q] = "saving"
              /\ req[q].op = "join"
              /\ Begins(p, "join")
              /\ req'[p].user # req[q].user
              /\ ~db.requiresApproval
              /\ Len(db.participants) = db.capacity.max - 1
              /\ req'[p].user \notin Range(db.participants)
              /\ PaymentOk(db, req'[p].code))
                 => /\ pc'[p] = "saving"
                    /\ result'[p] = "Joined"
                    /\ result[q] = "Joined"
                    /\ local'[p].participants = Append(db.participants, req'[p].user)
                    /\ local[q].participants = Append(db.participants, req[q].user)
          /\ (pc[p] = "saving" /\ pc'[p] = "done")
                 => result'[p] = result[p] /\ db' = local[p]]_vars

\* both racers were answered Joined: more users hold an admission than
\* capacity.max allows
C9_Witness ==
    /\ \A p \in Procs : Answered(p, "join", "Joined")
    /\ req[1].user # req[2].user
    /\ ~base.requiresApproval
    /\ Cardinality(Range(base.participants) \cup {req[1].user, req[2].user})
           > base.capacity.max

C11_DuplicateSafe ==
    [][\A p \in Procs :
          /\ (/\ Begins(p, "join")
              /\ ~db.requiresApproval
              /\ Len(db.participants) < db.capacity.max
              /\ req'[p].user \notin Range(db.participants)
              /\ PaymentOk(db, req'[p].code))
                 => /\ pc'[p] = "saving"
                    /\ result'[p] = "Joined"
                    /\ \A c \in TransactionCodes :
                         LET again == AttemptJoin(local'[p], req'[p].user, c, nextId)
                         IN  /\ again.result = "AlreadyJoined"
                             /\ ~again.save
                             /\ again.event = local'[p]
          /\ (/\ Begins(p, "join")
              /\ ~db.requiresApproval
              /\ req'[p].user \in Range(db.participants))
                 => FailsWith(p, "AlreadyJoined")]_vars

\* a participant of a requiresApproval=false event asked again, was answered
\* AlreadyJoined and the event still is what it was before the call
C11_Witness ==
    \E p \in Procs :
        /\ Answered(p, "join", "AlreadyJoined")
        /\ ~db.requiresApproval
        /\ db = base
        /\ db.participants[Len(db.participants)] = req[p].user
        /\ db.capacity.current = Len(db.participants)

\* C12 (as stated): on a requiresApproval=true event every attemptJoin of a
\* user who has a pending join request fails with DuplicateRequest
C12_PendingAlwaysDuplicateRequest ==
    [][\A p \in Procs :
          (/\ Begins(p, "join")
           /\ db.requiresApproval
           /\ RequestOf(db, req'[p].user, "pending"))
              => FailsWith(p, "DuplicateRequest")]_vars

\* C12 (amended): such a call always fails and appends no second request;
\* it fails with AlreadyJoined, CapacityExceeded or PaymentRequired when one
\* of the earlier checks applies, and with DuplicateRequest otherwise
C12_PendingNeverRequestsTwice ==
    [][\A p \in Procs :
          (/\ Begins(p, "join")
           /\ db.requiresApproval
           /\ RequestOf(db, req'[p].user, "pending"))
              => /\ pc'[p] = "done"
                 /\ db' = db
                 /\ nextId' = nextId
                 /\ result'[p] =
                      IF req'[p].user \in Range(db.participants)
                        THEN "AlreadyJoined"
                      ELSE IF Len(db.participants) >= db.capacity.max
                        THEN "CapacityExceeded"
                      ELSE IF ~PaymentOk(db, req'[p].code)
                        THEN "PaymentRequired"
                      ELSE "DuplicateRequest"]_vars

\* a second call carrying another transactionCode than the pending request
\* was answered DuplicateRequest and the request list still has one entry of
\* the caller
C12_Witness ==
    \E p \in Procs :
        /\ Answered(p, "join", "DuplicateRequest")
        /\ db.requiresApproval
        /\ \E i \in 1..Len(db.joinRequests) :
              /\ db.joinRequests[i].user = req[p].user
              /\ db.joinRequests[i].status = "pending"
              /\ db.joinRequests[i].transactionCode = "TX1"
              /\ req[p].code = NoCode
        /\ Cardinality({i \in 1..Len(db.joinRequests) :
                          db.joinRequests[i].user = req[p].user}) = 1

\* C13: approveRequest by the organizer on a request that is already
\* approved or rejected fails with AlreadyProcessed, saves nothing and
\* leaves the event as it is, full or not
C13_ApproveProcessedFails ==
    [][\A p \in Procs :
          (/\ Begins(p, "approve")
           /\ req'[p].user = db.organizer
           /\ \E i \in 1..Len(db.joinRequests) :
                 /\ db.joinRequests[i].id = req'[p].id
                 /\ db.joinRequests[i].status \in {"approved", "rejected"})
              => FailsWith(p, "AlreadyProcessed")]_vars

\* the organizer approved a request a second time on an event that is full
C13_Witness ==
    \E p \in Procs :
        /\ Answered(p, "approve", "AlreadyProcessed")
        /\ req[p].user = db.organizer
        /\ db.capacity.current >= db.capacity.max
        /\ \E i \in 1..Len(db.joinRequests) :
              /\ db.joinRequests[i].id = req[p].id
              /\ db.joinRequests[i].status = "approved"

\* C14: approveRequest and rejectRequest of a caller other than the
\* organizer fail with Forbidden and save nothing, whatever the request id
\* and status; a handler that changes the status of a request it read is an
\* approve or reject called by the organizer
C14_OnlyOrganizerDecides ==
    [][\A p \in Procs :
          /\ (/\ \/ Begins(p, "approve")
                 \/ Begins(p, "reject")
              /\ req'[p].user # db.organizer)
                 => FailsWith(p, "Forbidden")
          /\ (/\ pc[p] = "idle"
              /\ pc'[p] = "saving"
              /\ \E i \in 1..Len(db.joinRequests) :
                    local'[p].joinRequests[i].status # db.joinRequests[i].status)
                 => /\ req'[p].op \in {"approve", "reject"}
                    /\ req'[p].user = db.organizer]_vars

\* a user who is not the organizer tried to reject a pending request, was
\* answered Forbidden and the request is still pending
C14_Witness ==
    \E p \in Procs :
        /\ Answered(p, "reject", "Forbidden")
        /\ req[p].user # db.organizer
        /\ db = base
        /\ \E i \in 1..Len(db.joinRequests) :
              /\ db.joinRequests[i].id = req[p].id
              /\ db.joinRequests[i].status = "pending"

\* the sequence s without the entries equal to x
Without(s, x) ==
    LET Other(e) == e # x
    IN  SelectSeq(s, Other)

\* C15: leave of a participant of an event with a non-empty waitlist removes
\* the leaver, moves the head of the waitlist to the end of participants,
\* keeps the rest of the waitlist in order, leaves capacity.current, the
\* join requests and all else as they were, whatever requiresApproval is,
\* and that document is what is saved
C15_LeavePromotesHead ==
    [][\A p \in Procs :
          /\ (/\ Begins(p, "leave")
              /\ req'[p].user \in Range(db.participants)
              /\ db.waitlist # <<>>)
                 => /\ result'[p] = "Left"
                    /\ pc'[p] = "saving"
                    /\ local'[p] =
                         [db EXCEPT
                            !.participants =
                                Without(db.participants, req'[p].user)
                                    \o <<db.waitlist[1]>>,
                            !.waitlist =
                                [i \in 1..(Len(db.waitlist) - 1) |-> db.waitlist[i + 1]]]
          /\ (pc[p] = "saving" /\ pc'[p] = "done" /\ req[p].op = "leave")
                 => db' = local[p]]_vars

\* participants [U1, U2] and waitlist [A, B]: U1 left, participants are
\* [U2, A], the waitlist is [B] and capacity.current is still 2
C15_Witness ==
    \E p \in Procs :
        /\ Answered(p, "leave", "Left")
        /\ Len(base.participants) = 2
        /\ Len(base.waitlist) = 2
        /\ req[p].user = base.participants[1]
        /\ db.participants = <<base.participants[2], base.waitlist[1]>>
        /\ db.waitlist = <<base.waitlist[2]>>
        /\ db.capacity.current = base.capacity.current
        /\ db.joinRequests = base.joinRequests

\* C16: leave of a user who is not in participants fails with
\* NotAParticipant, saves nothing and leaves participants, capacity.current,
\* waitlist and joinRequests as they were, with or without a waitlist
C16_LeaveNonParticipantFails ==
    [][\A p \in Procs :
          (/\ Begins(p, "leave")
           /\ req'[p].user \notin Range(db.participants))
              => FailsWith(p, "NotAParticipant")]_vars

\* the head of a non-empty waitlist, not a participant, called leave next
\* to a participant: answered NotAParticipant, nobody promoted
C16_Witness ==
    \E p \in Procs :
        /\ Answered(p, "leave", "NotAParticipant")
        /\ db.waitlist # <<>>
        /\ req[p].user = db.waitlist[1]
        /\ req[p].user \notin Range(db.participants)
        /\ db.participants # <<>>
        /\ db = base

\* C17: no user is both on the waitlist and among the participants of the
\* stored event
C17_WaitlistDisjoint ==
    Range(db.waitlist) \cap Range(db.participants) = {}

\* C18: on a paid event that is not full, attemptJoin without a
\* transactionCode by a non-participant fails with PaymentRequired, the
\* answer carries the event's pricing amount and currency, and nothing is
\* saved (no participant, no join request), whatever requiresApproval is
C18_PaymentRequired ==
    [][\A p \in Procs :
          (/\ Begins(p, "join")
           /\ db.pricing.type = "paid"
           /\ Len(db.participants) < db.capacity.max
           /\ req'[p].code = NoCode
           /\ req'[p].user \notin Range(db.participants))
              => /\ FailsWith(p, "PaymentRequired")
                 /\ body'[p].amount = db.pricing.amount
                 /\ body'[p].currency = db.pricing.currency
                 /\ nextId' = nextId]_vars

\* a paid event that requires approval and has a free slot: a join without
\* transactionCode was answered PaymentRequired with the event's price
C18_Witness ==
    \E p \in Procs :
        /\ Answered(p, "join", "PaymentRequired")
        /\ db.pricing.type = "paid"
        /\ db.requiresApproval
        /\ body[p] = [amount |-> db.pricing.amount, currency |-> db.pricing.currency]
        /\ body[p] # NoBody
        /\ Len(db.participants) < db.capacity.max
        /\ db = base

\* C19: on a requiresApproval=true event an attemptJoin that passes the
\* checks returns PendingApproval and saves the event with exactly one
\* request appended (user = caller, status pending, transactionCode = the
\* code sent or "FREE"), participants, capacity.current and waitlist as
\* they were; PendingApproval is answered on no other event, and no handler
\* adds a request to an event with requiresApproval=false
C19_RequestCreated ==
    [][\A p \in Procs :
          /\ (/\ Begins(p, "join")
              /\ db.requiresApproval
              /\ req'[p].user \notin Range(db.participants)
              /\ Len(db.participants) < db.capacity.max
              /\ PaymentOk(db, req'[p].code)
              /\ ~RequestOf(db, req'[p].user, "pending"))
                 => result'[p] = "PendingApproval"
          /\ (pc[p] = "idle" /\ result'[p] = "PendingApproval")
                 => /\ req'[p].op = "join"
                    /\ db.requiresApproval
                    /\ pc'[p] = "saving"
                    /\ local'[p] =
                         [db EXCEPT !.joinRequests =
                            @ \o <<[id |-> nextId,
                                    user |-> req'[p].user,
                                    transactionCode |->
                                        IF req'[p].code = NoCode
                                        THEN "FREE" ELSE req'[p].code,
                                    status |-> "pending"]>>]
          /\ (pc[p] = "idle" /\ pc'[p] = "saving" /\ ~db.requiresApproval)
                 => local'[p].joinRequests = db.joinRequests]_vars

\* a join without transactionCode was answered PendingApproval: the event
\* has one more request, the caller's, pending with code "FREE", and the
\* same participants, capacity.current and waitlist
C19_Witness ==
    \E p \in Procs :
        /\ Answered(p, "join", "PendingApproval")
        /\ req[p].code = NoCode
        /\ Len(db.joinRequests) = Len(base.joinRequests) + 1
        /\ db.joinRequests[Len(db.joinRequests)] =
              [id |-> req[p].id, user |-> req[p].user,
               transactionCode |-> "FREE", status |-> "pending"]
        /\ db.participants = base.participants
        /\ db.capacity = base.capacity
        /\ db.waitlist = base.waitlist

\* C20: rejectRequest by the organizer on a pending request succeeds on a
\* full event as on any other, and the event it saves differs from the one
\* it read in the status of that request only, now rejected; a reject that
\* succeeds is such a call
C20_RejectChangesStatusOnly ==
    [][\A p \in Procs :
          /\ \A i \in 1..Len(db.joinRequests) :
                (/\ Begins(p, "reject")
                 /\ req'[p].user = db.organizer
                 /\ db.joinRequests[i].id = req'[p].id
                 /\ db.joinRequests[i].status = "pending")
                    => /\ result'[p] = "Rejected"
                       /\ pc'[p] = "saving"
                       /\ local'[p] =
                            [db EXCEPT !.joinRequests[i].status = "rejected"]
          /\ (pc[p] = "idle" /\ result'[p] = "Rejected")
                => \E i \in 1..Len(db.joinRequests) :
                      /\ db.joinRequests[i].id = req'[p].id
                      /\ db.joinRequests[i].status = "pending"
          /\ (pc[p] = "saving" /\ pc'[p] = "done" /\ req[p].op = "reject")
                => db' = local[p]]_vars

\* the organizer rejected a pending request of a full event: that request
\* is rejected and the rest of the event is what it was
C20_Witness ==
    \E p \in Procs :
        /\ Answered(p, "reject", "Rejected")
        /\ Len(base.participants) >= base.capacity.max
        /\ base.capacity.current >= base.capacity.max
        /\ \E i \in 1..Len(base.joinRequests) :
              /\ base.joinRequests[i].id = req[p].id
              /\ base.joinRequests[i].status = "pending"
              /\ db = [base EXCEPT !.joinRequests[i].status = "rejected"]

\* C21: whenever a handler has reported a failure to its caller (an error of
\* the taxonomy or the generic 500), the persisted event is the event as it
\* was before the operation started
C21_NoPartialMutation ==
    \A p \in FaultProcs :
        (pc[p] = "done" /\ result[p] \in Failures) => db = base

\* C22: a failure of the emit step after the save committed does not
\* surface: the caller still gets the success result and the committed
\* event stays
C22_EmitFailureSwallowed ==
    [][\A p \in FaultProcs :
          (pc[p] = "emitting" /\ pc'[p] = "done")
             => /\ result'[p] \in {"Joined", "PendingApproval", "Approved", "Rejected"}
                /\ db' = db]_vars

\* C23: joinRequests is append-only: every entry of the stored event is, in
\* the next state, still there at the same position with the same id, user
\* and transactionCode (only its status may move)
C23_RequestsAppendOnly ==
    [][\A i \in 1..Len(db.joinRequests) :
          /\ i <= Len(db'.joinRequests)
          /\ db'.joinRequests[i].id = db.joinRequests[i].id
          /\ db'.joinRequests[i].user = db.joinRequests[i].user
          /\ db'.joinRequests[i].transactionCode = db.joinRequests[i].transactionCode]_vars

\* the notification kind the claim pairs with each success result
ExpectedNotification(res) ==
    CASE res = "Joined"          -> "participant_joined"
      [] res = "PendingApproval" -> "join_request_created"
      [] res = "Approved"        -> "join_request_approved"
      [] res = "Rejected"        -> "join_request_rejected"

C25_ParticipantStable ==
    [][\A u \in Range(db.participants) :
          \/ u \in Range(db'.participants)
          \/ \E p \in Procs :
                /\ pc[p] = "saving"
                /\ pc'[p] = "done"
                /\ req[p].op = "leave"
                /\ req[p].user = u
                /\ result[p] = "Left"]_vars

\* C26: attemptJoin on a full requiresApproval=false event by a user who is
\* neither a participant nor waitlisted saves the event with that user
\* appended to the tail of the waitlist; a repeated attempt by a waitlisted
\* user adds no second entry
C26_FullJoinGoesToWaitlist ==
    [][\A p \in Procs :
          (/\ Begins(p, "join")
           /\ ~db.requiresApproval
           /\ Len(db.participants) >= db.capacity.max
           /\ req'[p].user \notin Range(db.participants))
              => IF req'[p].user \in Range(db.waitlist)
                 THEN pc'[p] = "done"
                 ELSE /\ pc'[p] = "saving"
                      /\ local'[p] =
                           [db EXCEPT !.waitlist = @ \o <<req'[p].user>>]]_vars

\* C27: capacity.current equals participants.length in the stored event and
\* in every document a handler is about to save, so that the capacity test
\* on capacity.current (approve) and the one on participants.length (join)
\* give the same answer
C27_LedgerConsistent ==
    /\ db.capacity.current = Len(db.participants)
    /\ (db.capacity.current >= db.capacity.max)
          <=> (Len(db.participants) >= db.capacity.max)
    /\ \A p \in Procs :
          pc[p] = "saving" => local[p].capacity.current = Len(local[p].participants)

\* a leave that promoted the waitlist head was committed: the ledger is
\* what it was and still equals participants.length
C27_Witness ==
    \E p \in Procs :
        /\ Answered(p, "leave", "Left")
        /\ base.waitlist # <<>>
        /\ db.waitlist = Tail(base.waitlist)
        /\ db.capacity.current = base.capacity.current
        /\ db.capacity.current = Len(db.participants)

\* C28: attemptJoin reports the first failure that applies in the order
\* NotFound, AlreadyJoined, CapacityExceeded, PaymentRequired,
\* DuplicateRequest, and saves nothing then; its result is a function of
\* the stored event, the user and whether a transactionCode was sent
C28_ErrorPrecedence ==
    [][\A p \in LookupProcs :
          Begins(p, "join") =>
             LET u == req'[p].user
                 expected ==
                    IF db = Null
                      THEN "NotFound"
                    ELSE IF u \in Range(db.participants)
                      THEN "AlreadyJoined"
                    ELSE IF Len(db.participants) >= db.capacity.max
                      THEN "CapacityExceeded"
                    ELSE IF db.pricing.type = "paid" /\ req'[p].code = NoCode
                      THEN "PaymentRequired"
                    ELSE IF db.requiresApproval /\ RequestOf(db, u, "pending")
                      THEN "DuplicateRequest"
                    ELSE IF db.requiresApproval
                      THEN "PendingApproval"
                    ELSE "Joined"
             IN  /\ result'[p] = expected
                 /\ expected \in Failures => FailsWith(p, expected)]_vars

\* a participant with a pending request asked to join a full paid event
\* without transactionCode: four checks fail, AlreadyJoined is reported
C28_Witness ==
    \E p \in LookupProcs :
        /\ Answered(p, "join", "AlreadyJoined")
        /\ db # Null
        /\ req[p].user \in Range(db.participants)
        /\ Len(db.participants) >= db.capacity.max
        /\ db.pricing.type = "paid"
        /\ req[p].code = NoCode
        /\ db.requiresApproval
        /\ RequestOf(db, req[p].user, "pending")

\* the organizer's two handlers both decided request rid, which they both
\* read as pending, and at least one of them approved it
DecidedTwice(rid) ==
    /\ \A p \in Procs :
          /\ pc[p] = "done"
          /\ req[p].op \in {"approve", "reject"}
          /\ req[p].id = rid
          /\ result[p] \in {"Approved", "Rejected"}
    /\ \E p \in Procs : result[p] = "Approved"
    /\ \E i \in 1..Len(base.joinRequests) :
          /\ base.joinRequests[i].id = rid
          /\ base.joinRequests[i].status = "pending"

\* C29: after two interleaved approveRequest calls (or an approveRequest and
\* a rejectRequest) for one pending request, the stored event is the event
\* they read with that request either approved and its user added once, or
\* rejected and nobody added: one final status, the user at most once more
\* in participants, capacity.current at most 1 higher
C29_AdmittedAtMostOnce ==
    \A rid \in RequestIds :
        DecidedTwice(rid) =>
            \E i \in 1..Len(base.joinRequests) :
                LET u == base.joinRequests[i].user
                IN  /\ base.joinRequests[i].id = rid
                    /\ \/ db = [base EXCEPT
                                  !.joinRequests[i].status = "approved",
                                  !.participants = @ \o <<u>>,
                                  !.capacity.current = @ + 1]
                       \/ db = [base EXCEPT !.joinRequests[i].status = "rejected"]
                    /\ Cardinality({k \in 1..Len(db.participants) :
                                       db.participants[k] = u}) <= 1
                    /\ db.capacity.current <= base.capacity.current + 1

\* C30: on a requiresApproval=false event, the event a successful
\* attemptJoin(u) saves, taken through leave(u), is with an empty waitlist
\* the event before the join again (participants, capacity.current,
\* waitlist, joinRequests), on which u can join once more; with a non-empty
\* waitlist the head takes the freed slot and participants keeps its length
C30_JoinLeaveRoundTrip ==
    [][\A p \in Procs :
          (/\ Begins(p, "join")
           /\ ~db.requiresApproval
           /\ result'[p] = "Joined")
              => LET u == req'[p].user
                     joined == local'[p]
                     left == Leave(joined, u)
                 IN  /\ left.result = "Left"
                     /\ left.save
                     /\ IF db.waitlist = <<>>
                        THEN /\ left.event = db
                             /\ \A c \in TransactionCodes :
                                   PaymentOk(db, c) =>
                                      /\ AttemptJoin(left.event, u, c, nextId).result = "Joined"
                                      /\ AttemptJoin(left.event, u, c, nextId).event = joined
                        ELSE /\ Len(left.event.participants) = Len(joined.participants)
                             /\ left.event.participants =
                                   db.participants \o <<db.waitlist[1]>>
                             /\ left.event.capacity.current = joined.capacity.current]_vars

\* u, who had joined last, left an event without waitlist: the stored event
\* is the one a join of u leads back to the event before the leave
C30_Witness ==
    \E p \in Procs :
        /\ Answered(p, "leave", "Left")
        /\ ~db.requiresApproval
        /\ base.waitlist = <<>>
        /\ base.participants = db.participants \o <<req[p].user>>
        /\ db.participants # <<>>
        /\ db.capacity.current = base.capacity.current - 1
        /\ db.joinRequests = base.joinRequests
        /\ req[p].user \notin Range(db.participants)
        /\ Len(db.participants) < db.capacity.max

====
